---- MODULE Spec2Model ----
(***************************************************************************)
(* A model of evaporatext: the zero-width-character codec of               *)
(* src/text_removal.rs and the Hide page's copy button of src/main.rs.     *)
(*                                                                         *)
(* A Rust str / String is modelled as the sequence of its UTF-8 bytes      *)
(* (naturals below 256); a char is its code point.  Option<T> is a record  *)
(* [ok, val].                                                              *)
(***************************************************************************)
EXTENDS Integers, Sequences, FiniteSets, TLC

VARIABLES
    \* ---- the private codec functions (encode_byte .. decode) ----
    op,         \* the codec function applied last
    origin,     \* what produced `data`: "none", "encode_byte", "encode", "input"
    byte,       \* the u8 last given to encode_byte
    payload,    \* the &str last given to encode
    data,       \* the &str the decoders read
    out,        \* the Option the decoder returned
    path,       \* the return statement of decode that produced `out`
    \* ---- the facade (create_secret, extract_secret) ----
    pc,         \* position in the facade: "idle", "walk", "created", "extracted", "overflow"
    cover,      \* normal_str of create_secret
    secret,     \* secret of create_secret
    mid,        \* the local `mid` of create_secret
    message,    \* the combined text: create_secret's result, the argument of extract_secret
    noise,      \* how many foreign characters were inserted into `message`
    filtered,   \* the local `filtered` of extract_secret
    recovered,  \* the Option extract_secret returned
    \* ---- the copy button of the Hide page ----
    label,      \* the signal copy_button_text
    tasks,      \* the spawned futures: task id -> [st, left]
    sinceOk     \* ms since the latest successful clipboard write, capped; -1: none yet

codecVars == <<op, origin, byte, payload, data, out, path>>
facadeVars == <<pc, cover, secret, mid, message, noise, filtered, recovered>>
copyVars == <<label, tasks, sinceOk>>
vars == <<codecVars, facadeVars, copyVars>>

(***************************************************************************)
(* Option<T>                                                               *)
(***************************************************************************)
None == [ok |-> FALSE, val |-> <<>>]
Some(v) == [ok |-> TRUE, val |-> v]

(***************************************************************************)
(* UTF-8, as Rust's str and String::from_utf8 define it.                   *)
(***************************************************************************)
Utf8Char(cp) ==
    IF cp < 128 THEN <<cp>>
    ELSE IF cp < 2048 THEN <<192 + (cp \div 64), 128 + (cp % 64)>>
    ELSE IF cp < 65536 THEN
        <<224 + (cp \div 4096), 128 + ((cp \div 64) % 64), 128 + (cp % 64)>>
    ELSE <<240 + (cp \div 262144), 128 + ((cp \div 4096) % 64),
           128 + ((cp \div 64) % 64), 128 + (cp % 64)>>

RECURSIVE Utf8(_)
Utf8(cps) == IF cps = <<>> THEN <<>> ELSE Utf8Char(Head(cps)) \o Utf8(Tail(cps))

IsCont(b) == b >= 128 /\ b <= 191

\* The width of the well-formed UTF-8 sequence that starts at bytes[i], 0 if none does.
Utf8Width(bytes, i) ==
    LET n == Len(bytes)
        b0 == bytes[i]
        c(k) == i + k <= n /\ IsCont(bytes[i + k])
        r(k, lo, hi) == i + k <= n /\ bytes[i + k] >= lo /\ bytes[i + k] <= hi
    IN  IF b0 < 128 THEN 1
        ELSE IF b0 >= 194 /\ b0 <= 223 THEN (IF c(1) THEN 2 ELSE 0)
        ELSE IF b0 = 224 THEN (IF r(1, 160, 191) /\ c(2) THEN 3 ELSE 0)
        ELSE IF b0 = 237 THEN (IF r(1, 128, 159) /\ c(2) THEN 3 ELSE 0)
        ELSE IF b0 >= 225 /\ b0 <= 239 THEN (IF c(1) /\ c(2) THEN 3 ELSE 0)
        ELSE IF b0 = 240 THEN (IF r(1, 144, 191) /\ c(2) /\ c(3) THEN 4 ELSE 0)
        ELSE IF b0 >= 241 /\ b0 <= 243 THEN (IF c(1) /\ c(2) /\ c(3) THEN 4 ELSE 0)
        ELSE IF b0 = 244 THEN (IF r(1, 128, 143) /\ c(2) /\ c(3) THEN 4 ELSE 0)
        ELSE 0

RECURSIVE ValidFrom(_, _)
ValidFrom(bytes, i) ==
    IF i > Len(bytes) THEN TRUE
    ELSE LET w == Utf8Width(bytes, i)
         IN  w > 0 /\ ValidFrom(bytes, i + w)

\* std::str::from_utf8(..).is_ok() / String::from_utf8(..).is_ok()
from_utf8_ok(bytes) == ValidFrom(bytes, 1)

\* The code point of the w-byte character at bytes[i].
CodePoint(bytes, i, w) ==
    IF w = 1 THEN bytes[i]
    ELSE IF w = 2 THEN (bytes[i] - 192) * 64 + (bytes[i + 1] - 128)
    ELSE IF w = 3 THEN
        (bytes[i] - 224) * 4096 + (bytes[i + 1] - 128) * 64 + (bytes[i + 2] - 128)
    ELSE (bytes[i] - 240) * 262144 + (bytes[i + 1] - 128) * 4096
         + (bytes[i + 2] - 128) * 64 + (bytes[i + 3] - 128)

\* str::chars(): the code points of a (valid) str.
RECURSIVE CharsFrom(_, _)
CharsFrom(bytes, i) ==
    IF i > Len(bytes) THEN <<>>
    ELSE LET w == Utf8Width(bytes, i)
         IN  <<CodePoint(bytes, i, w)>> \o CharsFrom(bytes, i + w)

chars(s) == CharsFrom(s, 1)

\* A boundary test that takes every index for a boundary.
is_char_boundary_any(s, index) == index <= Len(s)

\* str::is_char_boundary(index)
is_char_boundary(s, index) ==
    IF index = 0 THEN TRUE
    ELSE IF index >= Len(s) THEN index = Len(s)
    ELSE ~IsCont(s[index + 1])

(***************************************************************************)
(* text_removal.rs: the marker alphabet                                    *)
(***************************************************************************)
I_0 == Utf8Char(8204)
I_1 == Utf8Char(8205)
EXP_SIZE == 3

(***************************************************************************)
(* text_removal.rs: encode_byte, decode_byte                               *)
(***************************************************************************)
Pow2(i) == 2 ^ i

\* A slip that breaks the round trip: the bits are emitted most significant first.
RECURSIVE encode_bits_msb(_, _)
encode_bits_msb(b, i) ==
    IF i = 8 THEN <<>>
    ELSE (IF (b \div Pow2(7 - i)) % 2 = 1 THEN I_1 ELSE I_0) \o encode_bits_msb(b, i + 1)

RECURSIVE encode_bits(_, _)
encode_bits(b, i) ==
    IF i = 8 THEN <<>>
    ELSE (IF (b \div Pow2(i)) % 2 = 1 THEN I_1 ELSE I_0) \o encode_bits(b, i + 1)

encode_byte(b) == encode_bits(b, 0)

\* bytes.chunks_exact(size): chunk k (from 0) of the Len \div size whole chunks.
Chunk(bytes, size, k) == SubSeq(bytes, k * size + 1, (k + 1) * size)
NumChunks(bytes, size) == Len(bytes) \div size

\* result |= 1 << i, on a u8
OrBit(result, i) ==
    IF (result \div Pow2(i)) % 2 = 1 THEN result ELSE (result + Pow2(i)) % 256

RECURSIVE decode_bits(_, _, _)
decode_bits(bytes, i, result) ==
    IF i = NumChunks(bytes, EXP_SIZE) THEN result
    ELSE decode_bits(bytes, i + 1,
            IF Chunk(bytes, EXP_SIZE, i) = I_1 THEN OrBit(result, i) ELSE result)

\* A decode_byte that rejects a chunk that is neither marker.
decode_byte_strict(d) ==
    IF Len(d) # 8 * EXP_SIZE THEN None
    ELSE IF \E k \in 0..7 : Chunk(d, EXP_SIZE, k) \notin {I_0, I_1} THEN None
    ELSE Some(decode_bits(d, 0, 0))

decode_byte(d) ==
    IF Len(d) # 8 * EXP_SIZE THEN None
    ELSE Some(decode_bits(d, 0, 0))

(***************************************************************************)
(* text_removal.rs: encode, decode                                         *)
(***************************************************************************)
RECURSIVE encode_from(_, _)
encode_from(s, i) ==
    IF i > Len(s) THEN <<>> ELSE encode_byte(s[i]) \o encode_from(s, i + 1)

encode(s) == encode_from(s, 1)

\* The closure of decode's map: from_utf8(chunk).ok()? then decode_byte.
decode_chunk(chunk) ==
    IF ~from_utf8_ok(chunk) THEN None ELSE decode_byte(chunk)

\* collect::<Option<Vec<u8>>>(): None as soon as one chunk gives None.
RECURSIVE collect_bytes(_, _)
collect_bytes(d, k) ==
    IF k = NumChunks(d, 8 * EXP_SIZE) THEN Some(<<>>)
    ELSE LET b == decode_chunk(Chunk(d, 8 * EXP_SIZE, k))
         IN  IF ~b.ok THEN None
             ELSE LET rest == collect_bytes(d, k + 1)
                  IN  IF rest.ok THEN Some(<<b.val>> \o rest.val) ELSE None

\* A decode without the length check: chunks_exact drops the incomplete chunk.
decode_unchecked(d) ==
    LET bytes == collect_bytes(d, 0)
    IN  IF ~bytes.ok THEN None
        ELSE IF from_utf8_ok(bytes.val) THEN Some(bytes.val) ELSE None

\* A decode that reports "nothing found" for an empty marker sequence.
decode_rejects_empty(d) ==
    IF Len(d) = 0 \/ Len(d) % (8 * EXP_SIZE) # 0 THEN None
    ELSE LET bytes == collect_bytes(d, 0)
         IN  IF ~bytes.ok THEN None
             ELSE IF from_utf8_ok(bytes.val) THEN Some(bytes.val) ELSE None

decode(d) ==
    IF Len(d) % (8 * EXP_SIZE) # 0 THEN None
    ELSE LET bytes == collect_bytes(d, 0)
         IN  IF ~bytes.ok THEN None
             ELSE IF from_utf8_ok(bytes.val) THEN Some(bytes.val) ELSE None

\* Which return of decode is taken: "length" (line 86), "chunk" (a chunk gave
\* None, line 94-95), "text" (String::from_utf8 failed, line 101) or "ok".
decode_path(d) ==
    IF Len(d) % (8 * EXP_SIZE) # 0 THEN "length"
    ELSE LET bytes == collect_bytes(d, 0)
         IN  IF ~bytes.ok THEN "chunk"
             ELSE IF from_utf8_ok(bytes.val) THEN "ok" ELSE "text"

(***************************************************************************)
(* text_removal.rs: remove_unnecessary_symbols, extract_secret             *)
(***************************************************************************)
\* format!("[{}|{}]", I_0, I_1), as characters
Pattern == <<91>> \o chars(I_0) \o <<124>> \o chars(I_1) \o <<93>>

\* The regex is one bracketed class: every character between '[' and ']' is a
\* member of it, taken literally.
ReClass == {Pattern[i] : i \in 2..(Len(Pattern) - 1)}

\* re.find_iter(data).map(|mat| mat.as_str()).collect(): the matches, each one
\* character of the class, concatenated in order.
RECURSIVE find_iter_from(_, _)
find_iter_from(s, i) ==
    IF i > Len(s) THEN <<>>
    ELSE LET w == Utf8Width(s, i)
         IN  (IF CodePoint(s, i, w) \in ReClass THEN SubSeq(s, i, i + w - 1) ELSE <<>>)
             \o find_iter_from(s, i + w)

remove_unnecessary_symbols(s) == find_iter_from(s, 1)

extract_secret(m) == decode(remove_unnecessary_symbols(m))

(***************************************************************************)
(* Inputs.  Strings are built from code points and then UTF-8 encoded.     *)
(***************************************************************************)
MaxPayload == 2
MaxMarkers == 9

RECURSIVE StrsUpTo(_, _)
StrsUpTo(A, n) ==
    IF n = 0 THEN {<<>>}
    ELSE LET S == StrsUpTo(A, n - 1)
         IN  S \cup {Append(s, c) : s \in S, c \in A}

Byte == 0..255

\* 'h', e-acute (2 bytes), U+1F600 (4 bytes)
PayloadChars == {104, 233, 128512}
Payloads == {Utf8(s) : s \in StrsUpTo(PayloadChars, MaxPayload)}

\* Runs of up to MaxMarkers markers.
MarkerRuns == {Utf8(s) : s \in StrsUpTo({8204, 8205}, MaxMarkers)}

RECURSIVE Repeat(_, _)
Repeat(s, n) == IF n = 0 THEN <<>> ELSE s \o Repeat(s, n - 1)

\* 3 bytes that are no marker: U+200B, "aaa", "|||", "a" + e-acute.
ForeignChunks == {Utf8Char(8203), <<97, 97, 97>>, <<124, 124, 124>>, Utf8(<<97, 233>>)}
ReplaceChunk(d, k, f) == SubSeq(d, 1, 3 * k) \o f \o SubSeq(d, 3 * k + 4, Len(d))
ForeignData ==
    {ReplaceChunk(encode_byte(b), k, f) : b \in {0, 97, 255}, k \in 0..7, f \in ForeignChunks}

\* 24 and 48 bytes of valid UTF-8 whose markers straddle the 3-byte grid; in the
\* second a marker straddles the 24-byte boundary as well.
Misaligned ==
    {<<97>> \o Repeat(I_1, 7) \o Utf8Char(233), <<97>> \o Repeat(I_1, 15) \o Utf8Char(233)}

\* The encodings of byte strings that are not UTF-8: 0xFF, a lone lead byte
\* 0xC3, "h" then a lone continuation byte.
BadTextData == {encode(<<255>>), encode(<<195>>), encode(<<104, 169>>)}

CodecInputs == MarkerRuns \cup ForeignData \cup Misaligned \cup BadTextData \cup Payloads

(***************************************************************************)
(* The state after construction: nothing has been called, the Hide page    *)
(* shows "Copy".                                                           *)
(***************************************************************************)
MaxClicks == 3
Tasks == 1..MaxClicks

Init ==
    /\ op = "none" /\ origin = "none" /\ byte = 0 /\ payload = <<>>
    /\ data = <<>> /\ out = None /\ path = "none"
    /\ pc = "idle" /\ cover = <<>> /\ secret = <<>> /\ mid = 0
    /\ message = <<>> /\ noise = 0 /\ filtered = <<>> /\ recovered = None
    /\ label = "Copy" /\ tasks = [i \in Tasks |-> [st |-> "unborn", left |-> 0]]
    /\ sinceOk = -1

(***************************************************************************)
(* The codec functions, called as the unit tests call them: an encoder     *)
(* produces `data` (or a caller supplies it), then a decoder reads it.     *)
(***************************************************************************)
EncodeByte(b) ==
    /\ op = "none"
    /\ op' = "encode_byte" /\ origin' = "encode_byte"
    /\ byte' = b
    /\ data' = encode_byte(b)
    /\ payload' = <<>> /\ out' = None /\ path' = "none"
    /\ UNCHANGED <<facadeVars, copyVars>>

Encode(s) ==
    /\ op = "none"
    /\ op' = "encode" /\ origin' = "encode"
    /\ payload' = s
    /\ data' = encode(s)
    /\ byte' = 0 /\ out' = None /\ path' = "none"
    /\ UNCHANGED <<facadeVars, copyVars>>

LoadData(d) ==
    /\ op = "none"
    /\ op' = "input" /\ origin' = "input"
    /\ data' = d
    /\ byte' = 0 /\ payload' = <<>> /\ out' = None /\ path' = "none"
    /\ UNCHANGED <<facadeVars, copyVars>>

Produced == op \in {"encode_byte", "encode", "input"}

DecodeByte ==
    /\ Produced
    /\ op' = "decode_byte"
    /\ out' = decode_byte(data)
    /\ path' = "none"
    /\ UNCHANGED <<origin, byte, payload, data>>
    /\ UNCHANGED <<facadeVars, copyVars>>

Decode ==
    /\ Produced
    /\ op' = "decode"
    /\ out' = decode(data)
    /\ path' = decode_path(data)
    /\ UNCHANGED <<origin, byte, payload, data>>
    /\ UNCHANGED <<facadeVars, copyVars>>

ExtractData ==
    /\ Produced
    /\ op' = "extract_secret"
    /\ out' = extract_secret(data)
    /\ path' = decode_path(remove_unnecessary_symbols(data))
    /\ UNCHANGED <<origin, byte, payload, data>>
    /\ UNCHANGED <<facadeVars, copyVars>>

CodecNext ==
    \/ \E b \in Byte : EncodeByte(b)
    \/ \E s \in Payloads : Encode(s)
    \/ \E d \in CodecInputs : LoadData(d)
    \/ DecodeByte
    \/ Decode
    \/ ExtractData

CodecSpec == Init /\ [][CodecNext]_vars

(***************************************************************************)
(* text_removal.rs: create_secret and extract_secret, as the Hide and Seek *)
(* pages of main.rs call them.  create_secret is stepped through its       *)
(* boundary search.                                                        *)
(***************************************************************************)
MaxCover == 2
MaxSecret == 1
MaxText == 3
MaxNoise == 2

\* "Hello world" and "hi"
HelloWorld == Utf8(<<72, 101, 108, 108, 111, 32, 119, 111, 114, 108, 100>>)
Hi == Utf8(<<104, 105>>)

\* 'a', '|', e-acute (2 bytes), U+200C (a marker, 3 bytes), U+1F600 (4 bytes)
CoverChars == {97, 124, 233, 8204, 128512}
Covers == {Utf8(s) : s \in StrsUpTo(CoverChars, MaxCover)} \cup {HelloWorld}

\* 'h', e-acute
SecretChars == {104, 233}
Secrets == {Utf8(s) : s \in StrsUpTo(SecretChars, MaxSecret)} \cup {Hi}

\* What a user may type or paste into the Seek page.
TextChars == {97, 124, 233, 8204, 8205}
PipeRuns == {Repeat(<<124>>, n) : n \in 0..(8 * EXP_SIZE)}
Texts == {Utf8(s) : s \in StrsUpTo(TextChars, MaxText)} \cup {HelloWorld} \cup PipeRuns

\* Characters that are no marker: 'x', '|', e-acute
NoiseChars == {120, 124, 233}

\* A midpoint rounded up instead of down.
CreateStartRoundUp(c, s) ==
    /\ pc = "idle"
    /\ cover' = c /\ secret' = s
    /\ mid' = (Len(c) + 1) \div 2
    /\ pc' = "walk"
    /\ UNCHANGED <<message, noise, filtered, recovered>>
    /\ UNCHANGED <<codecVars, copyVars>>

\* let mut mid = normal_str.len() / 2;
CreateStart(c, s) ==
    /\ pc = "idle"
    /\ cover' = c /\ secret' = s
    /\ mid' = Len(c) \div 2
    /\ pc' = "walk"
    /\ UNCHANGED <<message, noise, filtered, recovered>>
    /\ UNCHANGED <<codecVars, copyVars>>

\* while !normal_str.is_char_boundary(mid) { mid -= 1; }
\* (mid is a usize: `mid -= 1` at 0 overflows, a panic or a wrap-around)
CreateWalk ==
    /\ pc = "walk"
    /\ ~is_char_boundary(cover, mid)
    /\ mid' = IF mid = 0 THEN mid ELSE mid - 1
    /\ pc' = IF mid = 0 THEN "overflow" ELSE "walk"
    /\ UNCHANGED <<cover, secret, message, noise, filtered, recovered>>
    /\ UNCHANGED <<codecVars, copyVars>>

\* format!("{}{}{}", &normal_str[..mid], hidden_content, &normal_str[mid..])
CreateFinish ==
    /\ pc = "walk"
    /\ is_char_boundary(cover, mid)
    /\ message' = SubSeq(cover, 1, mid) \o encode(secret) \o SubSeq(cover, mid + 1, Len(cover))
    /\ pc' = "created"
    /\ UNCHANGED <<cover, secret, mid, noise, filtered, recovered>>
    /\ UNCHANGED <<codecVars, copyVars>>

\* The combined text gets one more character that is no marker, at a character
\* boundary, on its way to the Seek page.
InsertNoise(i, ch) ==
    /\ pc = "created"
    /\ noise < MaxNoise
    /\ is_char_boundary(message, i)
    /\ message' = SubSeq(message, 1, i) \o Utf8Char(ch) \o SubSeq(message, i + 1, Len(message))
    /\ noise' = noise + 1
    /\ UNCHANGED <<pc, cover, secret, mid, filtered, recovered>>
    /\ UNCHANGED <<codecVars, copyVars>>

\* extract_secret on the combined text
Extract ==
    /\ pc = "created"
    /\ filtered' = remove_unnecessary_symbols(message)
    /\ recovered' = extract_secret(message)
    /\ pc' = "extracted"
    /\ UNCHANGED <<cover, secret, mid, message, noise>>
    /\ UNCHANGED <<codecVars, copyVars>>

\* Seek: combined_text.set(event.value()), then extract_secret(&combined)
SeekInput(t) ==
    /\ pc = "idle"
    /\ message' = t
    /\ filtered' = remove_unnecessary_symbols(t)
    /\ recovered' = extract_secret(t)
    /\ pc' = "sought"
    /\ UNCHANGED <<cover, secret, mid, noise>>
    /\ UNCHANGED <<codecVars, copyVars>>

Next ==
    \/ \E c \in Covers, s \in Secrets : CreateStart(c, s)
    \/ CreateWalk
    \/ CreateFinish
    \/ Extract
    \/ \E t \in Texts : SeekInput(t)

Spec == Init /\ [][Next]_vars

NoiseNext ==
    \/ Next
    \/ \E i \in 0..Len(message), ch \in NoiseChars : InsertNoise(i, ch)

NoiseSpec == Init /\ [][NoiseNext]_vars

(***************************************************************************)
(* Properties of the codec functions (checked under CodecSpec)             *)
(***************************************************************************)
BitOf(v, i) == (v \div (2 ^ i)) % 2
OneBytes == <<226, 128, 141>>
ZeroBytes == <<226, 128, 140>>
ThreeBytes(d, i) == SubSeq(d, 3 * i + 1, 3 * i + 3)

IsMarkerRun(d) ==
    /\ Len(d) % 3 = 0
    /\ \A k \in 0..((Len(d) \div 3) - 1) : ThreeBytes(d, k) \in {ZeroBytes, OneBytes}
MarkerCount(d) == Len(d) \div 3

\* C5: decode(encode(s)) = Some(s) for every payload s, the empty one and the
\* multi-byte ones included.
C5_CodecRoundTrip ==
    (op = "decode" /\ origin = "encode") => out = Some(payload)

C5_Witness ==
    /\ op = "decode" /\ origin = "encode"
    /\ payload = Utf8(<<233, 128512>>)
    /\ out = Some(payload)

\* C8 as amended: decode of n markers, n mod 8 # 0, returns None at the length
\* check; decode of markers whose bytes are not UTF-8 returns None as well; and
\* whichever failing return decode takes, decode and extract_secret return the
\* same None.
C8_FailuresAreNone ==
    /\ (op = "decode" /\ IsMarkerRun(data) /\ MarkerCount(data) % 8 # 0)
            => (path = "length" /\ out = None)
    /\ (op = "decode" /\ data \in BadTextData) => (path = "text" /\ out = None)
    /\ (op \in {"decode", "extract_secret"} /\ path \in {"length", "chunk", "text"})
            => out = None
    /\ (op \in {"decode", "extract_secret"} /\ path = "ok") => out.ok

C8_Witness ==
    /\ op = "decode" /\ path = "length"
    /\ IsMarkerRun(data) /\ MarkerCount(data) = 9
    /\ out = None

\* What decode returns for the markers of the byte 0xFF, which is not UTF-8
\* (the InvalidText failure).
InvalidTextResult == decode(encode(<<255>>))

\* C8 as stated: decode of n markers, n mod 8 # 0, fails, and with a failure
\* (MalformedLength) that differs from the one for InvalidText.
C8_KindsDistinct ==
    (op = "decode" /\ IsMarkerRun(data) /\ MarkerCount(data) % 8 # 0)
        => (~out.ok /\ out # InvalidTextResult)

\* C9: decode_byte fails exactly when its input is not 24 bytes long; on 24
\* bytes, bit i of the result is 1 iff the i-th 3-byte chunk is ONE's encoding
\* (a foreign chunk counts as 0); and decode_byte(encode_byte(b)) = b.
C9_DecodeByte ==
    op = "decode_byte" =>
        /\ out.ok <=> (Len(data) = 24)
        /\ out.ok =>
            /\ out.val \in 0..255
            /\ \A i \in 0..7 : (BitOf(out.val, i) = 1) <=> (ThreeBytes(data, i) = OneBytes)
        /\ (origin = "encode_byte") => (out = Some(byte))

C9_Witness ==
    /\ op = "decode_byte" /\ out.ok
    /\ \E i \in 0..7 : ThreeBytes(data, i) \notin {ZeroBytes, OneBytes}
    /\ \E i \in 0..7 : ThreeBytes(data, i) = OneBytes
    /\ out.val > 0

(***************************************************************************)
(* Properties of the facade (checked under Spec, C3 under NoiseSpec)       *)
(***************************************************************************)
IsMarkerChar(cp) == cp \in {8204, 8205}
NoMarkers(s) == \A i \in 1..Len(chars(s)) : ~IsMarkerChar(chars(s)[i])
CountOf(cp, s) == Cardinality({i \in 1..Len(chars(s)) : chars(s)[i] = cp})

\* k is a character boundary of s: the first k bytes are whole characters.
WholePrefix(s, k) == from_utf8_ok(SubSeq(s, 1, k))

\* C1: extract_secret(create_secret(c, s)) = Some(s) for every cover c without
\* marker characters ('|' and multi-byte characters allowed) and every secret s.
C1_FacadeRoundTrip ==
    (pc = "extracted" /\ noise = 0 /\ NoMarkers(cover)) => recovered = Some(secret)

\* C2 as stated: extract_secret of a text without marker characters is None.
C2_NoMarkersNone ==
    (pc = "sought" /\ NoMarkers(message)) => recovered = None

\* C2 as amended: for a text without marker characters, extract_secret returns
\* Some("") when the text has no '|'; with p > 0 characters '|' (which the
\* sanitizer keeps) it returns None unless p is a multiple of 24, and then
\* Some of p/24 NUL bytes.
C2_NoMarkersEmptyPayload ==
    (pc = "sought" /\ NoMarkers(message)) =>
        LET p == CountOf(124, message)
        IN  recovered = IF p % 24 = 0 THEN Some(Repeat(<<0>>, p \div 24)) ELSE None

C2_Witness ==
    /\ pc = "sought" /\ message = HelloWorld
    /\ recovered = Some(<<>>)

\* C3: extract_secret still returns Some(s) after characters that are no
\* markers were inserted into create_secret(c, s) at character boundaries.
C3_NoiseRobust ==
    (pc = "extracted" /\ noise >= 1 /\ NoMarkers(cover)) => recovered = Some(secret)

\* C4: remove_unnecessary_symbols(t) is exactly the subsequence of the
\* characters of t that are U+200C or U+200D.
C4_SanitizerKeepsOnlyMarkers ==
    (pc \in {"extracted", "sought"}) =>
        filtered = Utf8(SelectSeq(chars(message), IsMarkerChar))

\* C6: create_secret never fails; mid starts at floor(len/2), only moves down
\* past non-boundaries, never below 0, and ends as the largest character
\* boundary <= floor(len/2); the result is cover[..mid] ++ encode(secret) ++
\* cover[mid..], so both pieces of cover are whole characters and cutting the
\* inserted markers out gives cover back.
C6_SplitSafe ==
    LET half == Len(cover) \div 2
        run == 24 * Len(secret)
    IN  /\ pc # "overflow"
        /\ mid >= 0 /\ mid <= half
        /\ \A k \in (mid + 1)..half : ~WholePrefix(cover, k)
        /\ (pc \in {"created", "extracted"}) => WholePrefix(cover, mid)
        /\ (pc \in {"created", "extracted"} /\ noise = 0) =>
            /\ Len(message) = Len(cover) + run
            /\ SubSeq(message, 1, mid) = SubSeq(cover, 1, mid)
            /\ SubSeq(message, mid + 1, mid + run) = encode(secret)
            /\ IsMarkerRun(SubSeq(message, mid + 1, mid + run))
            /\ SubSeq(message, mid + run + 1, Len(message)) = SubSeq(cover, mid + 1, Len(cover))
            /\ SubSeq(message, 1, mid) \o SubSeq(message, mid + run + 1, Len(message)) = cover
            /\ from_utf8_ok(SubSeq(message, 1, mid))
            /\ from_utf8_ok(SubSeq(message, mid + run + 1, Len(message)))
            /\ from_utf8_ok(message)

\* The search stepped down from inside a 4-byte character to its start.
C6_Witness ==
    /\ pc = "created"
    /\ cover = Utf8(<<97, 128512>>)
    /\ mid = 1
    /\ secret = Utf8(<<233>>)

\* "hi" is 0x68 0x69, least significant bit first.
HiMarkers ==
    Utf8(<<8204, 8204, 8204, 8205, 8204, 8205, 8205, 8204,
           8205, 8204, 8204, 8205, 8204, 8205, 8205, 8204>>)

\* C7 as stated: create_secret("Hello world", "hi") is "Hello " + 16 markers +
\* "world", and extract_secret of it is Some("hi").
C7_SplitAfterSpace ==
    (pc \in {"created", "extracted"} /\ cover = HelloWorld /\ secret = Hi /\ noise = 0) =>
        /\ message = Utf8(<<72, 101, 108, 108, 111, 32>>) \o HiMarkers
                        \o Utf8(<<119, 111, 114, 108, 100>>)
        /\ (pc = "extracted") => recovered = Some(Hi)

\* C7 as amended: create_secret("Hello world", "hi") is "Hello" + 16 markers +
\* " world" (the split is at byte 5 = floor(11/2), before the space), and
\* extract_secret of it is Some("hi").
C7_SplitBeforeSpace ==
    (pc \in {"created", "extracted"} /\ cover = HelloWorld /\ secret = Hi /\ noise = 0) =>
        /\ message = Utf8(<<72, 101, 108, 108, 111>>) \o HiMarkers
                        \o Utf8(<<32, 119, 111, 114, 108, 100>>)
        /\ (pc = "extracted") => recovered = Some(Hi)

C7_Witness ==
    /\ pc = "extracted" /\ cover = HelloWorld /\ secret = Hi /\ noise = 0
    /\ mid = 5
    /\ recovered = Some(Hi)

(***************************************************************************)
(* main.rs: the copy button of the Hide page.  Every click spawns a future *)
(* that awaits the clipboard write and, if it succeeded, shows "Copied!",  *)
(* sleeps TimeoutMs and shows "Copy".  Time advances in steps of TickMs;   *)
(* a timer fires at or after its deadline.                                 *)
(***************************************************************************)
TimeoutMs == 2000
TickMs == TimeoutMs \div 2

Min(a, b) == IF a < b THEN a ELSE b
Max(a, b) == IF a > b THEN a ELSE b

\* onclick: spawn(async move { if let Some(window) = web_sys::window() { .. } })
Click(hasWindow) ==
    /\ \E i \in Tasks :
        /\ tasks[i].st = "unborn"
        /\ \A j \in Tasks : j < i => tasks[j].st # "unborn"
        /\ tasks' = [tasks EXCEPT ![i].st = IF hasWindow THEN "writing" ELSE "done"]
    /\ UNCHANGED <<label, sinceOk>>
    /\ UNCHANGED <<codecVars, facadeVars>>

\* JsFuture::from(promise).await.is_ok(): button_text.set("Copied!"), then
\* TimeoutFuture::new(2000) is started
WriteOk(i) ==
    /\ tasks[i].st = "writing"
    /\ label' = "Copied!"
    /\ tasks' = [tasks EXCEPT ![i] = [st |-> "sleeping", left |-> TimeoutMs]]
    /\ sinceOk' = 0
    /\ UNCHANGED <<codecVars, facadeVars>>

\* the promise is rejected: the future ends
WriteErr(i) ==
    /\ tasks[i].st = "writing"
    /\ tasks' = [tasks EXCEPT ![i].st = "done"]
    /\ UNCHANGED <<label, sinceOk>>
    /\ UNCHANGED <<codecVars, facadeVars>>

\* TimeoutFuture::new(2000).await returns: button_text.set("Copy")
TimerFire(i) ==
    /\ tasks[i].st = "sleeping"
    /\ tasks[i].left = 0
    /\ label' = "Copy"
    /\ tasks' = [tasks EXCEPT ![i].st = "done"]
    /\ UNCHANGED sinceOk
    /\ UNCHANGED <<codecVars, facadeVars>>

\* TickMs pass.
Tick ==
    /\ \/ \E i \in Tasks : tasks[i].st = "sleeping" /\ tasks[i].left > 0
       \/ (sinceOk >= 0 /\ sinceOk < TimeoutMs)
    /\ tasks' = [i \in Tasks |->
                    IF tasks[i].st = "sleeping"
                    THEN [tasks[i] EXCEPT !.left = Max(0, tasks[i].left - TickMs)]
                    ELSE tasks[i]]
    /\ sinceOk' = IF sinceOk >= 0 THEN Min(TimeoutMs, sinceOk + TickMs) ELSE sinceOk
    /\ UNCHANGED label
    /\ UNCHANGED <<codecVars, facadeVars>>

CopyNext ==
    \/ \E w \in BOOLEAN : Click(w)
    \/ \E i \in Tasks : WriteOk(i)
    \/ \E i \in Tasks : WriteErr(i)
    \/ \E i \in Tasks : TimerFire(i)
    \/ Tick

CopySpec == Init /\ [][CopyNext]_vars

\* The event loop runs every timer that is due, and time passes.
FairCopySpec ==
    /\ CopySpec
    /\ WF_vars(Tick)
    /\ \A i \in Tasks : WF_vars(TimerFire(i))

(***************************************************************************)
(* Properties of the copy button (checked under CopySpec)                  *)
(***************************************************************************)
\* C10: a successful copy shows "Copied!", and the label is "Copied!" for the
\* full 2000 ms after the most recent successful copy, also while clicks
\* overlap.
C10_CopiedForFullTimeout ==
    (sinceOk >= 0 /\ sinceOk < TimeoutMs) => label = "Copied!"

\* The parts of C10 that do hold: a failed write leaves the label alone, and
\* (under FairCopySpec) the label never stays "Copied!".
FailedWriteKeepsLabel ==
    [][\A i \in Tasks : WriteErr(i) => label' = label]_vars
LabelReturnsToCopy == (label = "Copied!") ~> (label = "Copy")

====
